---- MODULE Spec2Model ----
(***************************************************************************)
(* Strategy execution core of the trading bot:                             *)
(*   GeneralStrategy (src/strategies/general_strategy.py), its two signal  *)
(*   variants CrossMethod and GoldenDeathCross, and the cerebro set-up of  *)
(*   src/main.py.                                                          *)
(*                                                                         *)
(* The broker, the data feeds and the indicators are backtrader objects.   *)
(* They are the environment: closes and indicator values are inputs, the   *)
(* broker fills or refuses an order and changes its cash and position      *)
(* when it does.  Prices are integers, so that money is exact.             *)
(***************************************************************************)
EXTENDS Integers, Sequences, FiniteSets, TLC

\* ------------------------------------------------------------------ bounds
\* Orders the run may create (order.ref is an unbounded counter in backtrader).
MaxOrders == 3
\* Terminal notifications the broker may deliver a second time in one run
\* (specification SpecDup only; backtrader itself delivers each once).
MaxDuplicates == 1
\* Orders a run with duplicate notifications may create (specification SpecDup).
MaxDupOrders == 2
\* Orders a run that keeps what next() read may create (specification SpecSampled).
MaxSampledOrders == 2
\* Orders a run that keeps the ignored notifications may create (SpecNotified).
MaxNotifiedOrders == 2

\* ------------------------------------------------------- program constants
\* main.py: CASH = 100000.0
CASH == 100000
\* params investment_fraction = 0.1, kept as the exact fraction 1/10
InvestmentFractionNum == 1
InvestmentFractionDen == 10

\* cerebro.addstrategy(...): the strategy instances, in the order cerebro runs them.
StrategyVariant == <<"CrossMethod", "GoldenDeathCross">>
Strategies == 1..Len(StrategyVariant)

\* cerebro.adddata(...): the data feeds, in self.datas order.
DataNames == <<"A", "B">>
Datas == 1..Len(DataNames)

\* Prices each feed may carry, as closes and as fill prices: feed A moves between
\* two prices, feed B is flat.  IndicatorValues: the values an SMA may take.
FeedPrices == <<{10, 100}, {50}>>
Closes == {f \in [Datas -> UNION {FeedPrices[d] : d \in Datas}] :
              \A d \in Datas : f[d] \in FeedPrices[d]}
IndicatorValues == {10, 100}

\* Order statuses of backtrader that notify_order can see.
NonTerminal == {"Submitted", "Accepted"}
FailedStatus == {"Canceled", "Margin", "Rejected"}
Terminal == {"Completed"} \cup FailedStatus

VARIABLES
    pending_operation_funds,  \* GeneralStrategy.pending_operation_funds (class attribute, shared)
    assets_registry,          \* assets_registry[s][d]: self.assets_registry of instance s
    close,                    \* close[d]: data.close[0] of feed d at the current bar
    cash,                     \* broker.get_cash()
    position,                 \* position[d]: the broker's position in feed d
    orders,                   \* orders[ref]: every order created so far, by order.ref
    turn,                     \* strategies that have run next() in the current bar
    barStart,                 \* Len(orders) when the current bar began
    log,                      \* the lines of logs/operations.log the strategies wrote, in file order
    tradespending,            \* trade notifications backtrader has queued for the strategies
    sampled                   \* what the last observed handler call was given: by
                              \* SpecSampled what next() read from the feeds and
                              \* indicators, by SpecNotified the notification
                              \* notify_order ignored; empty in the other specifications

vars == <<pending_operation_funds, assets_registry, close, cash, position, orders, turn, barStart,
          log, tradespending, sampled>>

\* --------------------------------------------------------------- helpers
RECURSIVE SumOver(_, _)
SumOver(S, f) ==
    IF S = {} THEN 0
    ELSE LET x == CHOOSE y \in S : TRUE IN f[x] + SumOver(S \ {x}, f)

\* Python's int(): truncation toward zero of n / d, d > 0.
IntDiv(n, d) == IF n >= 0 THEN n \div d ELSE -((-n) \div d)

\* broker.getvalue(): cash plus the positions at the current closes.
getvalue == cash + SumOver(Datas, [d \in Datas |-> position[d] * close[d]])

\* CrossMethod.conditions_buy with a comparison that is not strict.
CrossMethod_conditions_buy_or_equal(c, sma) == c >= sma

\* ------------------------------------------------------ signal evaluators
CrossMethod_conditions_buy(c, sma) == c > sma
CrossMethod_conditions_sell(c, sma) == c < sma
GoldenDeathCross_conditions_buy(short, long) == short > long
GoldenDeathCross_conditions_sell(short, long) == short < long

\* ind = <<sma>> for CrossMethod, <<short, long>> for GoldenDeathCross
conditions_buy(s, c, ind) ==
    IF StrategyVariant[s] = "CrossMethod"
    THEN CrossMethod_conditions_buy(c, ind[1])
    ELSE GoldenDeathCross_conditions_buy(ind[1], ind[2])

conditions_sell(s, c, ind) ==
    IF StrategyVariant[s] = "CrossMethod"
    THEN CrossMethod_conditions_sell(c, ind[1])
    ELSE GoldenDeathCross_conditions_sell(ind[1], ind[2])

\* The indicator samples instance s reads in one next(): one per feed.
IndicatorInputs(s) ==
    IF StrategyVariant[s] = "CrossMethod"
    THEN [Datas -> {<<m>> : m \in IndicatorValues}]
    ELSE [Datas -> IndicatorValues \X IndicatorValues]

\* ------------------------------------------------------------------ sizing
\* get_purchase_vol with the if removed: the size is computed whatever the funds.
get_purchase_vol_nocheck(total_value, brokerCash, pending, c) ==
    IntDiv(total_value * InvestmentFractionNum, InvestmentFractionDen * c)

\* get_purchase_vol sizing on the funds still available instead of the whole
\* portfolio value.
get_purchase_vol_of_available(total_value, brokerCash, pending, c) ==
    IF total_value * InvestmentFractionNum <= (brokerCash - pending) * InvestmentFractionDen
    THEN IntDiv((brokerCash - pending) * InvestmentFractionNum, InvestmentFractionDen * c)
    ELSE 0

\* get_purchase_vol: money_to_invest = total_value * investment_fraction;
\* available_funds = cash - pending; int(money_to_invest / close) when it fits.
get_purchase_vol(total_value, brokerCash, pending, c) ==
    IF total_value * InvestmentFractionNum <= (brokerCash - pending) * InvestmentFractionDen
    THEN IntDiv(total_value * InvestmentFractionNum, InvestmentFractionDen * c)
    ELSE 0

\* ------------------------------------------------------------------ orders
\* What the run keeps of an order: its owner, feed, side and size.  reserved is
\* what next() added to pending_operation_funds for it (0 for a sell); resolved
\* counts the terminal notifications handled for it.  order.status belongs to
\* the broker: the strategy only sees it as the argument of notify_order.
NewOrder(s, d, side, size, amount) ==
    [owner |-> s, data |-> d, side |-> side, size |-> size,
     reserved |-> amount, resolved |-> 0]

IsBuy(o) == o.side = "buy"
IsSell(o) == o.side = "sell"
\* An executed size without the sign backtrader gives a sell.
ExecutedSize_unsigned(o) == o.size

\* order.executed.size: positive for a buy, negative for a sell; orders fill whole.
ExecutedSize(o) == IF IsBuy(o) THEN o.size ELSE -o.size

\* --------------------------------------------------------------- next()
\* DecideData selling the broker's whole position in the feed instead of the
\* instance's own assets_registry entry.
DecideData_broker_position(s, d, position_data, pending, ind) ==
    IF position_data = 0 /\ conditions_buy(s, close[d], ind)
    THEN LET vol == get_purchase_vol(getvalue, cash, pending, close[d])
         IN IF vol > 0 THEN <<"buy", vol>> ELSE <<"none", 0>>
    ELSE IF position_data > 0 /\ conditions_sell(s, close[d], ind)
    THEN <<"sell", position[d]>>
    ELSE <<"none", 0>>

\* DecideData without the test vol > 0: a buy is created whatever the sizing gave.
DecideData_any_vol(s, d, position_data, pending, ind) ==
    IF position_data = 0 /\ conditions_buy(s, close[d], ind)
    THEN <<"buy", get_purchase_vol(getvalue, cash, pending, close[d])>>
    ELSE IF position_data > 0 /\ conditions_sell(s, close[d], ind)
    THEN <<"sell", position_data>>
    ELSE <<"none", 0>>

\* DecideData without the test position_data == 0: it enters on the signal
\* whatever the instance holds.
DecideData_enter_regardless(s, d, position_data, pending, ind) ==
    IF conditions_buy(s, close[d], ind)
    THEN LET vol == get_purchase_vol(getvalue, cash, pending, close[d])
         IN IF vol > 0 THEN <<"buy", vol>> ELSE <<"none", 0>>
    ELSE IF position_data > 0 /\ conditions_sell(s, close[d], ind)
    THEN <<"sell", position_data>>
    ELSE <<"none", 0>>

\* The decision of next() for one feed, as <<kind, size>>.
DecideData(s, d, position_data, pending, ind) ==
    IF position_data = 0 /\ conditions_buy(s, close[d], ind)
    THEN LET vol == get_purchase_vol(getvalue, cash, pending, close[d])
         IN IF vol > 0 THEN <<"buy", vol>> ELSE <<"none", 0>>
    ELSE IF position_data > 0 /\ conditions_sell(s, close[d], ind)
    THEN <<"sell", position_data>>
    ELSE <<"none", 0>>

\* for data in self.datas: the loop from feed d on, threading the shared funds
\* and the orders created; st = [pending, orders].
RECURSIVE NextLoop(_, _, _, _)
NextLoop(s, d, st, inds) ==
    IF d > Len(DataNames) THEN st
    ELSE LET dec == DecideData(s, d, assets_registry[s][d], st.pending, inds[d])
             st2 == IF dec[1] = "buy"
                    THEN [pending |-> st.pending + dec[2] * close[d],
                          orders |-> Append(st.orders,
                                        NewOrder(s, d, "buy", dec[2], dec[2] * close[d]))]
                    ELSE IF dec[1] = "sell"
                    THEN [pending |-> st.pending,
                          orders |-> Append(st.orders, NewOrder(s, d, "sell", dec[2], 0))]
                    ELSE st
         IN NextLoop(s, d + 1, st2, inds)

\* GeneralStrategy.show_generated_order_log: main.py leaves it False.
show_generated_order_log == FALSE
\* The line next() logs for an order it creates, when that flag is set.
generated_log_line(o) ==
    [txt |-> IF IsBuy(o) THEN "ORDEN DE COMPRA GENERADA" ELSE "ORDEN DE VENTA GENERADA",
     ref |-> 0, data |-> DataNames[o.data]]

\* GeneralStrategy.next of instance s, reading the indicator samples inds.
next(s, inds) ==
    /\ turn = s - 1
    /\ \A i \in 1..Len(tradespending) : tradespending[i].owner # s
    /\ LET st == NextLoop(s, 1, [pending |-> pending_operation_funds, orders |-> orders], inds)
       IN /\ Len(st.orders) <= MaxOrders
          /\ pending_operation_funds' = st.pending
          /\ orders' = st.orders
          /\ log' = IF show_generated_order_log
                    THEN log \o [i \in 1..(Len(st.orders) - Len(orders)) |->
                                    generated_log_line(st.orders[Len(orders) + i])]
                    ELSE log
    /\ turn' = s
    /\ UNCHANGED <<assets_registry, close, cash, position, barStart, tradespending>>

\* The cycle calls next() of instance s with whatever the indicators show.
Next_(s) ==
    /\ \E inds \in IndicatorInputs(s) : next(s, inds)
    /\ UNCHANGED sampled

\* The same call, keeping what it read: the instance, the closes and the samples.
NextSampled(s) ==
    \E inds \in IndicatorInputs(s) :
        /\ next(s, inds)
        /\ Len(orders') <= MaxSampledOrders
        /\ sampled' = <<[owner |-> s, close |-> close, inds |-> inds]>>

\* ------------------------------------------------------------ bar advance
\* The feeds deliver the next bar: new closes; every strategy runs again.
AdvanceBar ==
    /\ turn = Len(StrategyVariant)
    /\ tradespending = <<>>
    /\ close' \in Closes
    /\ turn' = 0
    /\ barStart' = Len(orders)
    /\ UNCHANGED <<sampled, pending_operation_funds, assets_registry, cash, position, orders, log,
                   tradespending>>

\* handle_completed_order giving back what the buy's submission reserved.
handle_completed_order_release_reserved(o, pending, entry) ==
    IF IsBuy(o) THEN <<pending - o.reserved, entry + ExecutedSize(o)>>
    ELSE IF IsSell(o) THEN <<pending, entry + ExecutedSize(o)>>
    ELSE <<pending, entry>>

\* ------------------------------------------------------------ notify_order
\* handle_completed_order: new <<pending, registry entry>>.
handle_completed_order(o, pending, entry) ==
    IF IsBuy(o)
    THEN <<pending - ExecutedSize(o) * close[o.data], entry + ExecutedSize(o)>>
    ELSE IF IsSell(o)
    THEN <<pending, entry + ExecutedSize(o)>>
    ELSE <<pending, entry>>

\* handle_not_completed_order releasing funds for a sell as it does for a buy.
handle_not_completed_order_any_side(o, pending, entry) ==
    <<pending - o.size * close[o.data], entry>>

\* handle_not_completed_order that only logs: a failed buy gives nothing back.
handle_not_completed_order_no_release(o, pending, entry) == <<pending, entry>>

\* handle_not_completed_order: new <<pending, registry entry>>.
handle_not_completed_order(o, pending, entry) ==
    IF IsBuy(o)
    THEN <<pending - o.size * close[o.data], entry>>
    ELSE <<pending, entry>>

\* notify_order with no entry for Margin in status_actions.
notify_order_margin_ignored(o, status, pending, entry) ==
    IF status = "Completed" THEN handle_completed_order(o, pending, entry)
    ELSE IF status \in FailedStatus \ {"Margin"}
    THEN handle_not_completed_order(o, pending, entry)
    ELSE <<pending, entry>>

\* notify_order with Accepted mapped to handle_not_completed_order as well.
notify_order_accepted_fails(o, status, pending, entry) ==
    IF status = "Completed" THEN handle_completed_order(o, pending, entry)
    ELSE IF status \in FailedStatus \cup {"Accepted"}
    THEN handle_not_completed_order(o, pending, entry)
    ELSE <<pending, entry>>

\* notify_order with the three failure statuses mapped to
\* handle_completed_order like Completed.
notify_order_failure_as_completed(o, status, pending, entry) ==
    IF status \in Terminal THEN handle_completed_order(o, pending, entry)
    ELSE <<pending, entry>>

\* notify_order: status_actions.get(order.status), applied when there is one.
notify_order(o, status, pending, entry) ==
    IF status = "Completed" THEN handle_completed_order(o, pending, entry)
    ELSE IF status \in FailedStatus THEN handle_not_completed_order(o, pending, entry)
    ELSE <<pending, entry>>

\* ------------------------------------------------------------- the log
\* The texts add_log_entry is called with.  A line of the log is kept as its
\* text, the order's ID and its ACTIVO; the prices and amounts a line also
\* shows are left out (no handler reads the log back).
BuyExecuted == "COMPRA EJECUTADA"
SellExecuted == "VENTA EJECUTADA"
NotCompleted == "ORDEN CANCELADA/MARGEN INSUFICIENTE/RECHAZADA"
TradeClosed == "OPERACION CERRADA"

\* A write that stays in the file object's buffer and has not reached the file.
write_unflushed(file, line) == file

\* A write at the start of the file instead of its end (not opened 'a').
write_at_start(file, line) == <<line>> \o file

\* log_file.write(line + newline) on a file opened with buffering=1: the line
\* is flushed at its newline, so it is in the file when write returns, after
\* every line written before it by any instance (the file is opened 'a').
write(file, line) == Append(file, line)

\* add_log_entry(txt): self.log_file is open for the whole run.
add_log_entry(file, line) == write(file, line)

\* The line handle_completed_order logs for order o.
completed_log_line(ref, o) ==
    [txt |-> IF IsBuy(o) THEN BuyExecuted ELSE SellExecuted,
     ref |-> ref, data |-> DataNames[o.data]]

\* The line handle_not_completed_order logs, for a buy and for a sell.
not_completed_log_line(ref, o) ==
    [txt |-> NotCompleted, ref |-> ref, data |-> DataNames[o.data]]

\* The log after notify_order(order ref, status): one line per handler run.
notify_order_log(ref, o, status, file) ==
    IF status = "Completed" /\ (IsBuy(o) \/ IsSell(o))
    THEN add_log_entry(file, completed_log_line(ref, o))
    ELSE IF status \in FailedStatus /\ (IsBuy(o) \/ IsSell(o))
    THEN add_log_entry(file, not_completed_log_line(ref, o))
    ELSE file

\* Deliver on an assets_registry kept on the class, one dict shared by every
\* instance as pending_operation_funds is.
Deliver_shared_registry(ref, o, status) ==
    LET r == notify_order(o, status, pending_operation_funds, assets_registry[o.owner][o.data])
    IN /\ pending_operation_funds' = r[1]
       /\ assets_registry' = [s \in Strategies |->
                                 [assets_registry[s] EXCEPT ![o.data] =
                                     @ + (r[2] - assets_registry[o.owner][o.data])]]
       /\ log' = notify_order_log(ref, o, status, log)

\* What notify_order leaves in the strategy state and in the log for order o,
\* the order ref as the broker hands it over, with this status.
Deliver(ref, o, status) ==
    LET r == notify_order(o, status, pending_operation_funds, assets_registry[o.owner][o.data])
    IN /\ pending_operation_funds' = r[1]
       /\ assets_registry' = [assets_registry EXCEPT ![o.owner][o.data] = r[2]]
       /\ log' = notify_order_log(ref, o, status, log)

\* A notification reaches notify_order at the start of a later cycle than the
\* one whose next() created the order: never within the bar of its submission.
Notifiable(ref) == ref <= barStart
InFlight(ref) == orders[ref].resolved = 0 /\ Notifiable(ref)

\* The broker reports Submitted or Accepted: notify_order finds no action for it.
NotifyNonTerminal(ref, status) ==
    /\ InFlight(ref)
    /\ status \in NonTerminal
    /\ Deliver(ref, orders[ref], status)
    /\ UNCHANGED <<sampled, close, cash, position, orders, turn, barStart, tradespending>>

\* The same notification, keeping which order and status notify_order was given.
NotifyNonTerminalSampled(ref, status) ==
    /\ InFlight(ref)
    /\ status \in NonTerminal
    /\ Deliver(ref, orders[ref], status)
    /\ sampled' = <<[ref |-> ref, status |-> status]>>
    /\ UNCHANGED <<close, cash, position, orders, turn, barStart, tradespending>>

\* The trade notifications an execution of order o queues for its owner.
\* backtrader keeps one trade per strategy and feed, sized by the strategy's
\* executions on the feed (the sum assets_registry keeps); it queues the trade
\* when the execution closes it (its size returns to or crosses 0) and when
\* the execution opens one.
TradesTouched(o) ==
    LET before == assets_registry[o.owner][o.data]
        after == before + ExecutedSize(o)
        closes == before # 0 /\ (after = 0 \/ (before > 0) # (after > 0))
        opens == after # 0 /\ (before = 0 \/ (before > 0) # (after > 0))
    IN (IF closes THEN <<[owner |-> o.owner, data |-> o.data, isclosed |-> TRUE]>> ELSE <<>>)
       \o (IF opens THEN <<[owner |-> o.owner, data |-> o.data, isclosed |-> FALSE]>> ELSE <<>>)

\* notify_trade without the test on trade.isclosed: a line for every trade.
notify_trade_always_logs(trade, file) ==
    add_log_entry(file, [txt |-> TradeClosed, ref |-> 0, data |-> DataNames[trade.data]])

\* notify_trade(trade): nothing for a trade that is not closed, one log line
\* for a closed one; no strategy state is touched.
notify_trade(trade, file) ==
    IF ~trade.isclosed THEN file
    ELSE add_log_entry(file, [txt |-> TradeClosed, ref |-> 0, data |-> DataNames[trade.data]])

\* backtrader hands the strategy the oldest trade notification queued for it.
NotifyTrade ==
    /\ tradespending # <<>>
    /\ log' = notify_trade(Head(tradespending), log)
    /\ tradespending' = Tail(tradespending)
    /\ UNCHANGED <<sampled, pending_operation_funds, assets_registry, close, cash, position, orders,
                   turn, barStart>>

\* The broker fills an order at price p (whole: it never fills partially here)
\* and the owner is notified Completed.  A buy the cash cannot pay is not filled.
NotifyCompleted(ref, p) ==
    LET o == orders[ref] IN
    /\ InFlight(ref)
    /\ IsBuy(o) => o.size * p <= cash
    /\ cash' = cash - ExecutedSize(o) * p
    /\ position' = [position EXCEPT ![o.data] = @ + ExecutedSize(o)]
    /\ Deliver(ref, o, "Completed")
    /\ orders' = [orders EXCEPT ![ref].resolved = 1]
    /\ tradespending' = tradespending \o TradesTouched(o)
    /\ UNCHANGED <<sampled, close, turn, barStart>>

\* The broker cancels or refuses an order and the owner is notified.
NotifyFailed(ref, status) ==
    /\ InFlight(ref)
    /\ status \in FailedStatus
    /\ Deliver(ref, orders[ref], status)
    /\ orders' = [orders EXCEPT ![ref].resolved = 1]
    /\ UNCHANGED <<sampled, close, cash, position, turn, barStart, tradespending>>

\* The broker delivers a terminal notification again for an order that was
\* already reconciled: notify_order keeps no record of it and runs the handler.
Duplicates == SumOver(1..Len(orders),
                      [ref \in 1..Len(orders) |->
                          IF orders[ref].resolved > 1 THEN orders[ref].resolved - 1 ELSE 0])

NotifyDuplicate(ref, status) ==
    /\ orders[ref].resolved >= 1
    /\ Notifiable(ref)
    /\ Duplicates < MaxDuplicates
    /\ status \in Terminal
    /\ Deliver(ref, orders[ref], status)
    /\ orders' = [orders EXCEPT ![ref].resolved = @ + 1]
    /\ UNCHANGED <<sampled, close, cash, position, turn, barStart, tradespending>>

\* ------------------------------------------------------------------- system
Init ==
    /\ pending_operation_funds = 0
    /\ assets_registry = [s \in Strategies |-> [d \in Datas |-> 0]]
    /\ close \in Closes
    /\ cash = CASH
    /\ position = [d \in Datas |-> 0]
    /\ orders = <<>>
    /\ turn = 0
    /\ barStart = 0
    /\ log = <<>>
    /\ tradespending = <<>>
    /\ sampled = <<>>

Refs == 1..Len(orders)

Next ==
    \/ \E s \in Strategies : Next_(s)
    \/ AdvanceBar
    \/ \E ref \in Refs, status \in NonTerminal : NotifyNonTerminal(ref, status)
    \/ \E ref \in Refs : \E p \in FeedPrices[orders[ref].data] : NotifyCompleted(ref, p)
    \/ \E ref \in Refs, status \in FailedStatus : NotifyFailed(ref, status)
    \/ NotifyTrade

\* Every terminal notification is delivered once, as backtrader does.
Spec == Init /\ [][Next]_vars

NextDup ==
    \/ Duplicates = 0 /\ Next /\ Len(orders') <= MaxDupOrders
    \/ \E ref \in Refs, status \in Terminal : NotifyDuplicate(ref, status)

\* The broker may also deliver a terminal notification a second time; a run is
\* followed up to its duplicate notifications and no further.
SpecDup == Init /\ [][NextDup]_vars

NextOfSampled ==
    \/ \E s \in Strategies : NextSampled(s)
    \/ AdvanceBar
    \/ \E ref \in Refs, status \in NonTerminal : NotifyNonTerminal(ref, status)
    \/ \E ref \in Refs : \E p \in FeedPrices[orders[ref].data] : NotifyCompleted(ref, p)
    \/ \E ref \in Refs, status \in FailedStatus : NotifyFailed(ref, status)
    \/ NotifyTrade

\* The same program, observed with what each next() read.
SpecSampled == Init /\ [][NextOfSampled]_vars

NextNotified ==
    \/ Next /\ Len(orders') <= MaxNotifiedOrders
    \/ \E ref \in Refs, status \in NonTerminal : NotifyNonTerminalSampled(ref, status)

\* The same program, observed with the last notification notify_order ignored.
SpecNotified == Init /\ [][NextNotified]_vars

\* ------------------------------------------------------------- properties
BuyRefs == {ref \in Refs : IsBuy(orders[ref])}
SellRefs == {ref \in Refs : IsSell(orders[ref])}
\* Orders created by the step, and those it reconciles for the first time.
NewRefs == (Len(orders) + 1)..Len(orders')
ResolvedNow(ref) == orders[ref].resolved = 0 /\ orders'[ref].resolved = 1
Registry(o) == assets_registry[o.owner][o.data]

\* C1: reservation conservation: whenever every buy order has had its terminal
\* notification, pending_operation_funds is 0.
C1_ReservationConservation ==
    (\A ref \in BuyRefs : orders[ref].resolved >= 1) => pending_operation_funds = 0

\* C2: the amount a buy's terminal notification subtracts from
\* pending_operation_funds is the amount its submission added.
C2_ReleaseEqualsReserve ==
    [][\A ref \in BuyRefs :
          ResolvedNow(ref) =>
              pending_operation_funds - pending_operation_funds' = orders[ref].reserved]_vars

\* C3: no entry of any instance's assets_registry is ever negative.
C3_LedgerNonNegative ==
    \A s \in Strategies : \A d \in Datas : assets_registry[s][d] >= 0

\* C4: a second terminal notification for an order already reconciled leaves
\* every assets_registry and pending_operation_funds as they were.
C4_DuplicateNotReapplied ==
    [][\A ref \in Refs :
          (orders[ref].resolved >= 1 /\ orders'[ref].resolved > orders[ref].resolved) =>
              /\ pending_operation_funds' = pending_operation_funds
              /\ assets_registry' = assets_registry]_vars

\* C5: pending_operation_funds never exceeds the broker's cash.
C5_PendingWithinCash == pending_operation_funds <= cash

\* C6: pending_operation_funds is never negative.
C6_PendingNonNegative == pending_operation_funds >= 0

\* C7: between two buys of one instance for one feed there is a sell of that
\* instance for that feed: no buy is repeated while the entry condition merely
\* still holds, in particular not while the earlier buy is still in flight.
C7_NoReentryWithoutExit ==
    \A i \in BuyRefs : \A j \in BuyRefs :
        (i < j /\ orders[i].owner = orders[j].owner /\ orders[i].data = orders[j].data) =>
            \E k \in SellRefs :
                /\ i < k /\ k < j
                /\ orders[k].owner = orders[i].owner /\ orders[k].data = orders[i].data

\* C8: every sell order next() submits asks for exactly the submitting
\* instance's assets_registry entry for the feed, and that entry is > 0.
C8_SellWhatYouBought ==
    [][\A ref \in NewRefs :
          IsSell(orders'[ref]) =>
              /\ orders'[ref].size = Registry(orders'[ref])
              /\ orders'[ref].size > 0]_vars

\* C8 witness: a sell is in flight for the whole of its owner's holding.
C8_Witness ==
    \E ref \in SellRefs :
        /\ orders[ref].resolved = 0
        /\ orders[ref].size = Registry(orders[ref])
        /\ orders[ref].size > 0

\* C9: a Completed sell for more units than the owner's assets_registry entry
\* holds leaves assets_registry unchanged (the broker's position moves when an
\* order is filled, which tells Completed from a failure).
C9_OversizedDecreaseRefused ==
    [][\A ref \in SellRefs :
          (ResolvedNow(ref) /\ position' # position
             /\ orders[ref].size > Registry(orders[ref])) =>
              assets_registry' = assets_registry]_vars

SampledOwner == sampled[1].owner
SampledInds == sampled[1].inds
\* The step is a call of next() (the only steps that move turn forward).
IsNextStep == turn' = turn + 1
\* The orders the step created, in creation order.
NewOrders == SubSeq(orders', Len(orders) + 1, Len(orders'))

\* The buys the sizing rule asks of instance s from feed d on, when pend is
\* reserved so far: for a flat feed whose entry signal is true,
\* floor(fraction * value / close) units if fraction * value fits in cash - pend.
RECURSIVE SizedBuys(_, _, _, _)
SizedBuys(s, d, pend, inds) ==
    IF d > Len(DataNames) THEN <<>>
    ELSE LET fits == getvalue * InvestmentFractionNum <= (cash - pend) * InvestmentFractionDen
             size == IF fits
                     THEN (getvalue * InvestmentFractionNum) \div (InvestmentFractionDen * close[d])
                     ELSE 0
         IN IF assets_registry[s][d] = 0 /\ conditions_buy(s, close[d], inds[d]) /\ size > 0
            THEN <<[data |-> d, size |-> size]>> \o SizedBuys(s, d + 1, pend + size * close[d], inds)
            ELSE SizedBuys(s, d + 1, pend, inds)

\* C11: a call of next() submits, for each flat feed whose entry signal is true,
\* one buy of floor(fraction * value / close) units when fraction * value is at
\* most cash minus pending_operation_funds (no buy otherwise or when that size
\* is 0), and adds exactly size * close to pending_operation_funds for each.
C11_BuySizing ==
    [][IsNextStep =>
        LET exp == SizedBuys(turn', 1, pending_operation_funds, sampled'[1].inds)
            buys == SelectSeq(NewOrders, IsBuy)
        IN /\ Len(buys) = Len(exp)
           /\ \A i \in 1..Len(exp) :
                 /\ buys[i].owner = turn'
                 /\ buys[i].data = exp[i].data
                 /\ buys[i].size = exp[i].size
           /\ pending_operation_funds' = pending_operation_funds
                 + SumOver(1..Len(exp), [i \in 1..Len(exp) |-> exp[i].size * close[exp[i].data]])]_vars

\* Two buys sized in one pass of next(), the second with the first's reservation
\* already counted.
C11_Witness ==
    /\ sampled # <<>>
    /\ \E i \in BuyRefs : \E j \in BuyRefs :
         /\ i < j /\ i > barStart
         /\ orders[i].owner = SampledOwner /\ orders[j].owner = SampledOwner
         /\ orders[i].data # orders[j].data
         /\ \A ref \in {i, j} :
              orders[ref].size = (getvalue * InvestmentFractionNum)
                                    \div (InvestmentFractionDen * close[orders[ref].data])
         /\ pending_operation_funds = orders[i].reserved + orders[j].reserved

\* The step's new buys on feeds before d, and what is reserved when the pass
\* of next() reaches feed d.
NewBuysBefore(d) == {ref \in NewRefs : IsBuy(orders'[ref]) /\ orders'[ref].data < d}
PendingAt(d) ==
    pending_operation_funds
        + SumOver(NewBuysBefore(d), [ref \in NewBuysBefore(d) |-> orders'[ref].reserved])
\* The sizing rule gives 0 at feed d: the funds do not cover fraction * value,
\* or one unit costs more than fraction * value.
SizingGivesZero(pend, d) ==
    \/ getvalue * InvestmentFractionNum > (cash - pend) * InvestmentFractionDen
    \/ getvalue * InvestmentFractionNum < InvestmentFractionDen * close[d]

\* C12: next() never submits an order of size 0 or less, buy or sell; for a flat
\* feed whose entry signal is true and whose sizing gives 0 it submits nothing;
\* pending_operation_funds grows only by the reservations of the buys submitted,
\* and no assets_registry entry changes.
C12_NoEmptyOrder ==
    [][IsNextStep =>
        /\ \A ref \in NewRefs : orders'[ref].size > 0
        /\ \A d \in Datas :
              ( /\ assets_registry[turn'][d] = 0
                /\ conditions_buy(turn', close[d], sampled'[1].inds[d])
                /\ SizingGivesZero(PendingAt(d), d) )
              => \A ref \in NewRefs : orders'[ref].data # d
        /\ pending_operation_funds' = PendingAt(Len(DataNames) + 1)
        /\ assets_registry' = assets_registry]_vars

\* next() has just run for an instance that is flat in a feed whose entry
\* signal it read as true, without the funds to cover fraction * value, and it
\* created no order for that feed.
C12_Witness ==
    /\ sampled # <<>>
    /\ turn = SampledOwner
    /\ sampled[1].close = close
    /\ \E d \in Datas :
         /\ assets_registry[SampledOwner][d] = 0
         /\ conditions_buy(SampledOwner, close[d], SampledInds[d])
         /\ getvalue * InvestmentFractionNum
               > (cash - pending_operation_funds) * InvestmentFractionDen
         /\ \A ref \in Refs : ref > barStart => orders[ref].data # d

\* The step is the first terminal notification of order ref and the broker
\* filled it (Completed): the broker's position moved.  The other case is a
\* failure (Canceled, Margin, Rejected).
CompletedNow(ref) == ResolvedNow(ref) /\ position' # position
FailedNow(ref) == ResolvedNow(ref) /\ position' = position
\* executed.size * executed.price of the fill: what the broker's cash paid.
ExecutedCost == cash - cash'

C14_FailedBuyRelease ==
    [][\A ref \in BuyRefs :
          FailedNow(ref) =>
              /\ pending_operation_funds - pending_operation_funds'
                    = orders[ref].size * close[orders[ref].data]
              /\ assets_registry' = assets_registry]_vars

\* A single buy has failed in a bar whose close differs from the close it was
\* sized at: nothing was bought and the close-based amount has been released.
C14_Witness ==
    /\ Len(orders) = 1
    /\ IsBuy(orders[1]) /\ orders[1].resolved = 1
    /\ cash = CASH
    /\ \A s \in Strategies : \A d \in Datas : assets_registry[s][d] = 0
    /\ pending_operation_funds = orders[1].reserved - orders[1].size * close[orders[1].data]
    /\ pending_operation_funds # 0

\* C15: sells never touch pending_operation_funds: a call of next() adds to it
\* only the reservations of the buys it creates, and neither a Completed nor a
\* failed sell changes it.  A Completed sell lowers the owner's entry for the
\* feed by the executed size; a failed sell changes no assets_registry entry.
C15_SellsLeaveFunds ==
    [][/\ IsNextStep =>
            LET newBuys == {ref \in NewRefs : IsBuy(orders'[ref])}
            IN pending_operation_funds' = pending_operation_funds
                  + SumOver(newBuys, [ref \in newBuys |->
                                        orders'[ref].size * close[orders'[ref].data]])
       /\ \A ref \in SellRefs :
            /\ CompletedNow(ref) =>
                  /\ pending_operation_funds' = pending_operation_funds
                  /\ assets_registry' =
                        [assets_registry EXCEPT ![orders[ref].owner][orders[ref].data]
                                                    = @ - orders[ref].size]
            /\ FailedNow(ref) =>
                  /\ pending_operation_funds' = pending_operation_funds
                  /\ assets_registry' = assets_registry]_vars

\* An instance's sell was filled while another instance's buy is in flight:
\* the seller's entry is back at 0 and the buy's reservation is still held.
C15_Witness ==
    \E k \in SellRefs : \E j \in BuyRefs :
        /\ orders[k].resolved = 1 /\ orders[j].resolved = 0
        /\ orders[j].owner # orders[k].owner
        /\ Registry(orders[k]) = 0
        /\ position[orders[k].data] = 0
        /\ Len(log) >= 2 /\ log[Len(log)].txt \in {SellExecuted, TradeClosed}
        /\ pending_operation_funds >= orders[j].reserved

\* C16: a Submitted or Accepted notification changes no assets_registry entry,
\* not pending_operation_funds and not the log, and leaves its order awaiting
\* its terminal notification.
C16_NonTerminalIgnored ==
    [][sampled' # sampled =>
          /\ assets_registry' = assets_registry
          /\ pending_operation_funds' = pending_operation_funds
          /\ log' = log
          /\ orders' = orders
          /\ orders'[sampled'[1].ref].resolved = 0
          /\ sampled'[1].ref <= barStart']_vars

\* An order was notified Accepted, which was ignored, and later got its
\* terminal notification, which was handled: its line is the last of the log.
C16_Witness ==
    /\ sampled # <<>>
    /\ sampled[1].status = "Accepted"
    /\ orders[sampled[1].ref].resolved = 1
    /\ log # <<>>
    /\ log[Len(log)].ref = sampled[1].ref

\* The line the step appended to the log, when it appended exactly one.
AppendedOne == Len(log') = Len(log) + 1 /\ SubSeq(log', 1, Len(log)) = log
LastLine == log'[Len(log')]

\* C17: the log is append-only and chronological across the instances: a step
\* changes it only by adding, after every line already there, one line for the
\* event handled in that step: the order reconciled, whichever instance owns
\* it, or the closed trade notified.
C17_LogAppendOnlyChronological ==
    [][log' # log =>
          /\ AppendedOne
          /\ \/ /\ LastLine.txt \in {BuyExecuted, SellExecuted, NotCompleted}
                /\ LastLine.ref \in Refs
                /\ ResolvedNow(LastLine.ref)
                /\ LastLine.data = DataNames[orders[LastLine.ref].data]
             \/ /\ LastLine.txt = TradeClosed
                /\ tradespending # <<>>
                /\ Head(tradespending).isclosed
                /\ LastLine.data = DataNames[Head(tradespending).data]
                /\ tradespending' = Tail(tradespending)]_vars

\* The log holds lines of orders of two instances, the order created later
\* reconciled and logged first.
C17_Witness ==
    \E i \in 1..Len(log) : \E j \in 1..Len(log) :
        /\ i < j
        /\ log[i].ref \in Refs /\ log[j].ref \in Refs
        /\ log[i].ref > log[j].ref
        /\ orders[log[i].ref].owner # orders[log[j].ref].owner

\* The text of the line notify_order logs for an order of this side.
TerminalTexts(o) == IF IsBuy(o) THEN {BuyExecuted, NotCompleted} ELSE {SellExecuted, NotCompleted}

\* The steps by which the cycle goes on whatever the broker reports: the trade
\* notification queued, next() of the instance in turn, the next bar.
CycleStep == NotifyTrade \/ (\E s \in Strategies : Next_(s)) \/ AdvanceBar

\* C18: every terminal notification, Completed or failed, of a buy or of a
\* sell, adds exactly one line to the log, the line of that order; a failed one
\* adds the failure line and the run goes on: the cycle stands where it stood
\* and, with the failure line the last of the log, its next step is possible.
C18_OneLinePerTerminal ==
    /\ [][\A ref \in Refs :
            ResolvedNow(ref) =>
                /\ AppendedOne
                /\ LastLine.ref = ref
                /\ LastLine.txt \in TerminalTexts(orders[ref])
                /\ CompletedNow(ref) <=> LastLine.txt # NotCompleted
                /\ FailedNow(ref) => turn' = turn /\ barStart' = barStart]_vars
    /\ []((log # <<>> /\ log[Len(log)].txt = NotCompleted) => ENABLED CycleStep)

\* A buy and a sell have both failed, each leaving its failure line in the
\* log, and the run went on to a later call of next().
C18_Witness ==
    /\ \E i \in 1..Len(log) : \E j \in 1..Len(log) :
         /\ log[i].txt = NotCompleted /\ log[j].txt = NotCompleted
         /\ log[i].ref \in BuyRefs /\ log[j].ref \in SellRefs
    /\ Len(log) = Cardinality({ref \in Refs : orders[ref].resolved = 1})
                   + Cardinality({i \in 1..Len(log) : log[i].txt = TradeClosed})
    /\ turn > 0
    /\ barStart = Len(orders)

\* What next() of instance s decides for feed d in the state the step leaves,
\* reading the indicator sample ind.
DecisionAfter(s, d, ind) ==
    DecideData(s, d, assets_registry[s][d], pending_operation_funds, ind)'

\* C19: round trip.  A Completed buy of n units by an instance that is flat in
\* the feed leaves its entry at n; a Completed sell of the n units it holds
\* leaves the entry at 0, and the instance may enter the feed again: with a
\* true entry signal next() would buy whenever the sizing gives a size > 0.
C19_RoundTrip ==
    [][\A ref \in Refs :
          LET o == orders[ref] IN
          CompletedNow(ref) =>
              /\ (IsBuy(o) /\ Registry(o) = 0) => Registry(o)' = o.size
              /\ (IsSell(o) /\ Registry(o) = o.size) =>
                    /\ Registry(o)' = 0
                    /\ \A inds \in IndicatorInputs(o.owner) :
                          conditions_buy(o.owner, close'[o.data], inds[o.data]) =>
                              ( DecisionAfter(o.owner, o.data, inds[o.data])[1] = "buy"
                                <=> get_purchase_vol(getvalue, cash, pending_operation_funds,
                                                     close[o.data])' > 0 )]_vars

\* An instance bought, the buy was filled, it sold what it held, the sell was
\* filled, and being flat again it has submitted a new buy for the same feed.
C19_Witness ==
    /\ Len(orders) = 3 /\ Len(log) >= 2
    /\ IsBuy(orders[1]) /\ IsSell(orders[2]) /\ IsBuy(orders[3])
    /\ \A ref \in Refs : orders[ref].owner = orders[1].owner /\ orders[ref].data = orders[1].data
    /\ orders[2].size = orders[1].size
    /\ \E i \in 1..Len(log) : \E j \in 1..Len(log) :
         /\ i < j
         /\ log[i].txt = BuyExecuted /\ log[i].ref = 1
         /\ log[j].txt = SellExecuted /\ log[j].ref = 2
    /\ orders[3].resolved = 0
    /\ Registry(orders[1]) = 0

\* What next() of the sampled instance read for feed d, and what the two
\* evaluators return for it.
SampledClose(d) == sampled[1].close[d]
SampledInd(d) == sampled[1].inds[d]
Enter(d) == conditions_buy(SampledOwner, SampledClose(d), SampledInd(d))
Exit(d) == conditions_sell(SampledOwner, SampledClose(d), SampledInd(d))

\* C20: the evaluators compare strictly and change nothing.  CrossMethod enters
\* iff close > average and exits iff close < average; GoldenDeathCross enters
\* iff short average > long average and exits iff short < long; on equality
\* neither signal is true and never both are; a call of next() that only
\* evaluated them (it created no order) changed no strategy or broker state.
C20_StrictSignals ==
    /\ [](sampled # <<>> =>
            \A d \in Datas :
                /\ StrategyVariant[SampledOwner] = "CrossMethod" =>
                      /\ Enter(d) <=> SampledClose(d) > SampledInd(d)[1]
                      /\ Exit(d) <=> SampledClose(d) < SampledInd(d)[1]
                      /\ SampledClose(d) = SampledInd(d)[1] => ~Enter(d) /\ ~Exit(d)
                /\ StrategyVariant[SampledOwner] = "GoldenDeathCross" =>
                      /\ Enter(d) <=> SampledInd(d)[1] > SampledInd(d)[2]
                      /\ Exit(d) <=> SampledInd(d)[1] < SampledInd(d)[2]
                      /\ SampledInd(d)[1] = SampledInd(d)[2] => ~Enter(d) /\ ~Exit(d)
                /\ ~(Enter(d) /\ Exit(d)))
    /\ [][(IsNextStep /\ orders' = orders) =>
            UNCHANGED <<pending_operation_funds, assets_registry, close, cash, position,
                        log, tradespending, barStart>>]_vars

\* next() of a CrossMethod instance read a close equal to its average on one
\* feed, where neither signal is true, and a close above it on the other.
C20_Witness ==
    /\ sampled # <<>>
    /\ StrategyVariant[SampledOwner] = "CrossMethod"
    /\ \E d \in Datas : \E e \in Datas :
         /\ SampledClose(d) = SampledInd(d)[1] /\ ~Enter(d) /\ ~Exit(d)
         /\ SampledClose(e) > SampledInd(e)[1] /\ Enter(e) /\ ~Exit(e)

\* The step hands the oldest queued trade notification to notify_trade (the
\* only steps that shorten the queue).
IsTradeStep == tradespending # <<>> /\ tradespending' = Tail(tradespending)

\* C21: a trade notification changes no assets_registry entry and not
\* pending_operation_funds (nor the orders or the broker); it adds one line,
\* the closed trade's, to the log when the trade is closed and leaves the log
\* as it is when the trade is not closed.
C21_TradeNotificationReadOnly ==
    [][IsTradeStep =>
          /\ UNCHANGED <<assets_registry, pending_operation_funds, orders, cash, position>>
          /\ IF Head(tradespending).isclosed
             THEN /\ AppendedOne
                  /\ LastLine.txt = TradeClosed
                  /\ LastLine.data = DataNames[Head(tradespending).data]
             ELSE log' = log]_vars

\* A trade was notified when it opened, which left no line, and again when it
\* closed, which left one: its line follows the sell's, and nothing is queued.
C21_Witness ==
    /\ tradespending = <<>>
    /\ Len(log) = 3
    /\ log[1].txt = BuyExecuted /\ log[2].txt = SellExecuted /\ log[3].txt = TradeClosed
    /\ log[3].data = log[2].data

\* The buys that have had no terminal notification yet, and what their
\* submissions reserved.
OpenBuys == {ref \in BuyRefs : orders[ref].resolved = 0}
OpenReservations == SumOver(OpenBuys, [ref \in OpenBuys |-> orders[ref].reserved])

\* C22: no timeout: as long as a buy has not resolved, whatever bars go by and
\* whatever other orders are notified, the amount it reserved stays included
\* in pending_operation_funds: the funds never hold less than the
\* reservations of the buys still awaiting their terminal notification.
C22_ReservationHeldUntilResolved ==
    pending_operation_funds >= OpenReservations

\* C23: an instance's assets_registry entry for a feed changes only in a step
\* that handles the Completed notification of one of that instance's own
\* orders on that feed; a call of next(), whatever it submits, changes no
\* entry; and a terminal notification changes no entry of another instance
\* and no entry of another feed.
C23_LedgerOwnership ==
    [][/\ \A s \in Strategies : \A d \in Datas :
            assets_registry'[s][d] # assets_registry[s][d] =>
                \E ref \in Refs :
                    /\ CompletedNow(ref)
                    /\ orders[ref].owner = s /\ orders[ref].data = d
       /\ IsNextStep => assets_registry' = assets_registry
       /\ \A ref \in Refs :
            ResolvedNow(ref) =>
                \A s \in Strategies : \A d \in Datas :
                    (s # orders[ref].owner \/ d # orders[ref].data) =>
                        assets_registry'[s][d] = assets_registry[s][d]]_vars

\* Each of two instances has had a buy filled, on different feeds: each holds
\* its own units and nothing of the feed the other bought.
C23_Witness ==
    \E s \in Strategies : \E u \in Strategies : \E d \in Datas : \E e \in Datas :
        /\ s # u /\ d # e
        /\ assets_registry[s][d] > 0 /\ assets_registry[s][e] = 0
        /\ assets_registry[u][e] > 0 /\ assets_registry[u][d] = 0
        /\ position[d] = assets_registry[s][d] /\ position[e] = assets_registry[u][e]

\* The sells of instance s on feed d that have had no terminal notification.
OpenSells(s, d) ==
    {ref \in SellRefs : orders[ref].owner = s /\ orders[ref].data = d /\ orders[ref].resolved = 0}

\* C24: for every instance and feed, the sizes of the instance's sells still
\* awaiting their terminal notification add up to no more than its
\* assets_registry entry: no second sell goes out while an earlier one is in
\* flight.
C24_OpenSellsWithinLedger ==
    \A s \in Strategies : \A d \in Datas :
        SumOver(OpenSells(s, d), [ref \in OpenSells(s, d) |-> orders[ref].size])
            <= assets_registry[s][d]

\* The feed of buy ref closes, in this state, where it closed when next()
\* sized the buy (reserved is size times that close).
SameCloseAsSubmitted(ref) ==
    orders[ref].size * close[orders[ref].data] = orders[ref].reserved

\* C25: conditional conservation: when a buy, filled whole or failed, gets its
\* terminal notification at the close it was submitted at, the notification
\* lowers pending_operation_funds by exactly the amount reserved; if it is the
\* only buy of the run, the funds are back at the 0 they started from.
C25_ConservationAtSameClose ==
    [][\A ref \in BuyRefs :
          (ResolvedNow(ref) /\ SameCloseAsSubmitted(ref)) =>
              /\ pending_operation_funds - pending_operation_funds' = orders[ref].reserved
              /\ BuyRefs = {ref} => pending_operation_funds' = 0]_vars

\* Two buys were submitted and both resolved at the closes they were sized
\* at, one filled and one failed: the funds are back at 0.
C25_Witness ==
    /\ Cardinality(BuyRefs) = 2 /\ SellRefs = {}
    /\ \A ref \in BuyRefs : orders[ref].resolved = 1 /\ SameCloseAsSubmitted(ref)
    /\ \E i \in 1..Len(log) : \E j \in 1..Len(log) :
         log[i].txt = BuyExecuted /\ log[j].txt = NotCompleted
    /\ pending_operation_funds = 0

\* C26: one pass of next() submits at most one order per feed, all of the
\* instance in turn and in the order of the feeds; a buy only for a feed whose
\* entry in the instance's assets_registry is 0, a sell only for one whose
\* entry is > 0; and every buy was sized with the reservations made for the
\* feeds before it already counted against the cash.
C26_OnePerAssetInFeedOrder ==
    [][IsNextStep =>
          /\ \A i \in NewRefs : \A j \in NewRefs :
                i < j => orders'[i].data < orders'[j].data
          /\ \A ref \in NewRefs :
                LET o == orders'[ref] IN
                /\ o.owner = turn'
                /\ IsBuy(o) => assets_registry[o.owner][o.data] = 0
                /\ IsSell(o) => assets_registry[o.owner][o.data] > 0
                /\ IsBuy(o) =>
                      getvalue * InvestmentFractionNum
                          <= (cash - PendingAt(o.data)) * InvestmentFractionDen]_vars

\* One pass of an instance that holds the first feed and is flat in the
\* second has just submitted a sell for the first and then a buy for the
\* second.
C26_Witness ==
    \E i \in SellRefs : \E j \in BuyRefs :
        /\ barStart < i /\ i < j
        /\ orders[i].owner = orders[j].owner /\ turn = orders[i].owner
        /\ orders[i].data < orders[j].data
        /\ Registry(orders[i]) = orders[i].size
        /\ Registry(orders[j]) = 0
        /\ pending_operation_funds >= orders[j].reserved

\* C27: recovery after a failed buy: a Canceled, Margin or Rejected buy of an
\* instance whose entry for the feed is 0 leaves the entry at 0, so the failure
\* does not block entry: in the state it leaves, with a true entry signal
\* next() would buy the feed whenever the sizing gives a size > 0.
C27_RecoveryAfterFailedBuy ==
    [][\A ref \in BuyRefs :
          LET o == orders[ref] IN
          (FailedNow(ref) /\ Registry(o) = 0) =>
              /\ Registry(o)' = 0
              /\ \A inds \in IndicatorInputs(o.owner) :
                    conditions_buy(o.owner, close'[o.data], inds[o.data]) =>
                        ( DecisionAfter(o.owner, o.data, inds[o.data])[1] = "buy"
                          <=> get_purchase_vol(getvalue, cash, pending_operation_funds,
                                               close[o.data])' > 0 )]_vars

\* An instance's buy failed and, its entry still 0, the instance has submitted
\* a new buy for the same feed in the current bar.
C27_Witness ==
    /\ Len(orders) = 2 /\ barStart = 1
    /\ IsBuy(orders[1]) /\ IsBuy(orders[2])
    /\ orders[2].owner = orders[1].owner /\ orders[2].data = orders[1].data
    /\ log = <<not_completed_log_line(1, orders[1])>>
    /\ orders[2].resolved = 0
    /\ Registry(orders[1]) = 0
    /\ pending_operation_funds = orders[2].reserved

====
